---- MODULE Spec2Model ----
\* Model of the SEED Pomodoro timer engine (src/src/timer_logic.py):
\* PomodoroTimer's state, its operations and the wall clock it reads; and of
\* the statistics store (src/src/stats.py): StatsTracker's state, its
\* operations, the storage file and the calendar date it reads.
EXTENDS Integers, Sequences, FiniteSets, TLC

\* ---------------------------------------------------------------- bounds
\* Largest instant the wall clock reaches (seconds since the session began).
MaxTime == 5
\* Largest amount by which the clock advances between two operations.
MaxStep == 2
\* Largest configured phase duration (seconds).
MaxDuration == 2
\* Largest configured pomodoros_before_long_break.
MaxBeforeLong == 3
\* Cap on pomodoros_completed (the counter is unbounded in the code).
MaxPomodoros == 4

\* ---------------------------------------------------------------- types
\* TimerPhase enum values.
FOCUS == "focus"
SHORT_BREAK == "short_break"
LONG_BREAK == "long_break"
TimerPhase == {FOCUS, SHORT_BREAK, LONG_BREAK}

\* Optional[float]: None is the empty sequence, a value t is <<t>>.
None == <<>>
Some(t) == <<t>>
Val(o) == o[1]

\* TimerConfig values the session may be constructed with.  The engine does
\* not validate its config, so a duration of 0 is a possible input.
TimerConfig ==
    [focus_duration : 0..MaxDuration,
     short_break_duration : 0..MaxDuration,
     long_break_duration : 0..MaxDuration,
     pomodoros_before_long_break : 1..MaxBeforeLong]

\* The four voices of quotes.py.
Voice == {"solea", "nyra", "vox", "atlas"}

VARIABLES
    now,                  \* time.time()
    config,               \* self.config
    phase,                \* self.phase
    pomodoros_completed,  \* self.pomodoros_completed
    is_running,           \* self.is_running
    is_paused,            \* self.is_paused
    start_time,           \* self.start_time
    paused_elapsed,       \* self.paused_elapsed
    total_elapsed,        \* self.total_elapsed
    op,                   \* the operation performed last
    ret,                  \* what that operation returned: None, Some(b) for a
                          \* boolean b, or the value itself
    args,                 \* the arguments that operation was called with
    focus_completions,    \* check_completion calls that left Focus since the
                          \* last reset (observer, not a field of the timer)
    overrun,              \* the time by which the phase had run past its end
                          \* when the last operation, a check_completion,
                          \* advanced it; 0 after any other call (observer)
    today,                \* date.today(), as a day number
    history,              \* StatsTracker.history
    current_day,          \* StatsTracker.current_day
    streak,               \* StatsTracker.streak
    storage,              \* the contents of the file at storage_path
    records,              \* mutating store calls made so far (observer)
    raised,               \* the exception StatsTracker(...) propagated, if any
    notification_sent,    \* st.session_state.notification_sent
    used_quotes,          \* QuoteManager.used_quotes
    served,               \* the quotes get_quote has returned for each voice
                          \* since the manager was fresh (observer)
    second,               \* a second StatsTracker on the same storage_path:
                          \* its history, current_day and streak, and the
                          \* record calls made on it (observer); None if
                          \* there is none
    found                 \* today's pomodoros in the file when the two
                          \* trackers were constructed (observer)

timer == <<phase, pomodoros_completed, is_running, is_paused,
           start_time, paused_elapsed, total_elapsed>>
quote_manager == <<used_quotes, served>>
store == <<today, history, current_day, streak, storage, records, raised>>
shared == <<second, found>>
vars == <<now, config, phase, pomodoros_completed, is_running, is_paused,
          start_time, paused_elapsed, total_elapsed, op, ret, args,
          focus_completions, overrun, today, history, current_day, streak,
          storage, records, raised, notification_sent, used_quotes, served,
          second, found>>

\* ---------------------------------------------------------------- reads
max(a, b) == IF a >= b THEN a ELSE b

\* Elapsed with the is_running test left out: a paused timer keeps counting.
Elapsed_ignoring_running(running, st, pe, t) ==
    IF st = None THEN pe ELSE t - Val(st)

\* get_elapsed as a function of the fields it reads and the clock.
Elapsed(running, st, pe, t) ==
    IF ~running \/ st = None THEN pe ELSE t - Val(st)

get_elapsed == Elapsed(is_running, start_time, paused_elapsed, now)

\* get_phase_duration as a function of the phase and the config.
PhaseDuration(ph, cfg) ==
    IF ph = FOCUS THEN cfg.focus_duration
    ELSE IF ph = SHORT_BREAK THEN cfg.short_break_duration
    ELSE cfg.long_break_duration

get_phase_duration == PhaseDuration(phase, config)

\* Remaining without the clamp at 0.
Remaining_unclamped(duration, elapsed) == duration - elapsed

\* max(0, duration - elapsed)
Remaining(duration, elapsed) == max(0, duration - elapsed)

get_remaining == Remaining(get_phase_duration, get_elapsed)

\* Progress showing the share of the phase that is left.
Progress_countdown(elapsed, duration) ==
    IF duration = 0 THEN <<0, 1>>
    ELSE IF elapsed >= duration THEN <<0, 1>>
    ELSE <<duration - elapsed, duration>>

\* Progress without the cap at 1.
Progress_uncapped(elapsed, duration) ==
    IF duration = 0 THEN <<0, 1>>
    ELSE <<elapsed, duration>>

\* get_progress as the fraction <<numerator, denominator>>:
\* 0 when the duration is 0, else min(1, elapsed / duration).
Progress(elapsed, duration) ==
    IF duration = 0 THEN <<0, 1>>
    ELSE IF elapsed >= duration THEN <<1, 1>>
    ELSE <<elapsed, duration>>

get_progress == Progress(get_elapsed, get_phase_duration)

\* (minutes, seconds) of the remaining time.
get_time_display == <<get_remaining \div 60, get_remaining % 60>>

get_status_summary ==
    [phase |-> phase,
     remaining_minutes |-> get_time_display[1],
     remaining_seconds |-> get_time_display[2],
     progress |-> get_progress,
     is_running |-> is_running,
     is_paused |-> is_paused,
     pomodoros_completed |-> pomodoros_completed,
     next_long_break |-> config.pomodoros_before_long_break
         - (pomodoros_completed % config.pomodoros_before_long_break)]

\* ---------------------------------------------------------------- daily stats
\* DailyStats(date_str): all counters 0.
DailyStats(d) ==
    [date |-> d, pomodoros |-> 0, focus_time |-> 0, break_time |-> 0,
     completed_cycles |-> 0, long_breaks_taken |-> 0]

\* The contents of a storage file that does not exist.
Missing == [kind |-> "missing"]

\* ---------------------------------------------------------------- state
\* What every timer operation leaves behind besides the timer's fields: the
\* record of the call, and a statistics store it never touches.
TimerCall ==
    /\ args' = <<>>
    /\ focus_completions' =
          IF op' = "reset" THEN 0
          ELSE IF op' = "check_completion" /\ ret' = Some(TRUE) /\ phase = FOCUS
               THEN focus_completions + 1
               ELSE focus_completions
    /\ overrun' =
          IF op' = "check_completion" /\ ret' = Some(TRUE)
          THEN get_elapsed - get_phase_duration
          ELSE 0
    /\ UNCHANGED <<store, notification_sent, quote_manager, shared>>

\* ResetState that forgets to return to the Focus phase.
ResetState_keeping_phase ==
    /\ UNCHANGED phase
    /\ pomodoros_completed' = 0
    /\ is_running' = FALSE
    /\ is_paused' = FALSE
    /\ start_time' = None
    /\ paused_elapsed' = 0
    /\ total_elapsed' = 0

\* ResetState that forgets to clear the pomodoro count.
ResetState_keeping_count ==
    /\ phase' = FOCUS
    /\ UNCHANGED pomodoros_completed
    /\ is_running' = FALSE
    /\ is_paused' = FALSE
    /\ start_time' = None
    /\ paused_elapsed' = 0
    /\ total_elapsed' = 0

\* The fields reset() assigns.
ResetState ==
    /\ phase' = FOCUS
    /\ pomodoros_completed' = 0
    /\ is_running' = FALSE
    /\ is_paused' = FALSE
    /\ start_time' = None
    /\ paused_elapsed' = 0
    /\ total_elapsed' = 0

\* PomodoroTimer(config): the config is stored and reset() is called.
Init ==
    /\ now = 0
    /\ config \in TimerConfig
    /\ phase = FOCUS
    /\ pomodoros_completed = 0
    /\ is_running = FALSE
    /\ is_paused = FALSE
    /\ start_time = None
    /\ paused_elapsed = 0
    /\ total_elapsed = 0
    /\ op = "init"
    /\ ret = None
    /\ args = <<>>
    /\ focus_completions = 0
    /\ overrun = 0
    /\ today = 0
    /\ history = <<>>
    /\ current_day = DailyStats(0)
    /\ streak = 0
    /\ storage = Missing
    /\ records = 0
    /\ raised = None
    /\ notification_sent = FALSE
    /\ used_quotes = [voice \in Voice |-> <<>>]
    /\ served = [voice \in Voice |-> <<>>]
    /\ second = None
    /\ found = 0

\* ---------------------------------------------------------------- operations
reset ==
    /\ ResetState
    /\ op' = "reset"
    /\ ret' = None
    /\ UNCHANGED <<now, config>>
    /\ TimerCall

\* start that restarts the countdown instead of resuming it.
start_restarting ==
    /\ IF ~is_running
       THEN /\ is_running' = TRUE
            /\ is_paused' = FALSE
            /\ start_time' = Some(now)
            /\ UNCHANGED <<phase, pomodoros_completed, paused_elapsed, total_elapsed>>
       ELSE UNCHANGED timer
    /\ op' = "start"
    /\ ret' = None
    /\ UNCHANGED <<now, config>>
    /\ TimerCall

\* start without the "if not self.is_running" guard: a repeated start
\* rewrites the reference instant.
start_unguarded ==
    /\ is_running' = TRUE
    /\ is_paused' = FALSE
    /\ start_time' = Some(now - paused_elapsed)
    /\ UNCHANGED <<phase, pomodoros_completed, paused_elapsed, total_elapsed>>
    /\ op' = "start"
    /\ ret' = None
    /\ UNCHANGED <<now, config>>
    /\ TimerCall

\* start adding the banked time to the clock instead of subtracting it.
start_sign_slip ==
    /\ IF ~is_running
       THEN /\ is_running' = TRUE
            /\ is_paused' = FALSE
            /\ start_time' = Some(now + paused_elapsed)
            /\ UNCHANGED <<phase, pomodoros_completed, paused_elapsed, total_elapsed>>
       ELSE UNCHANGED timer
    /\ op' = "start"
    /\ ret' = None
    /\ UNCHANGED <<now, config>>
    /\ TimerCall

start ==
    /\ IF ~is_running
       THEN /\ is_running' = TRUE
            /\ is_paused' = FALSE
            /\ start_time' = Some(now - paused_elapsed)
            /\ UNCHANGED <<phase, pomodoros_completed, paused_elapsed, total_elapsed>>
       ELSE UNCHANGED timer
    /\ op' = "start"
    /\ ret' = None
    /\ UNCHANGED <<now, config>>
    /\ TimerCall

\* pause that forgets to clear is_running.
pause_still_running ==
    /\ IF is_running /\ ~is_paused
       THEN /\ is_paused' = TRUE
            /\ paused_elapsed' = get_elapsed
            /\ UNCHANGED <<phase, pomodoros_completed, is_running, start_time,
                           total_elapsed>>
       ELSE UNCHANGED timer
    /\ op' = "pause"
    /\ ret' = None
    /\ UNCHANGED <<now, config>>
    /\ TimerCall

pause ==
    /\ IF is_running /\ ~is_paused
       THEN /\ is_paused' = TRUE
            /\ paused_elapsed' = get_elapsed
            /\ is_running' = FALSE
            /\ UNCHANGED <<phase, pomodoros_completed, start_time, total_elapsed>>
       ELSE UNCHANGED timer
    /\ op' = "pause"
    /\ ret' = None
    /\ UNCHANGED <<now, config>>
    /\ TimerCall

\* stop that leaves the banked elapsed time in place.
stop_keeping_elapsed ==
    /\ is_running' = FALSE
    /\ is_paused' = FALSE
    /\ start_time' = None
    /\ UNCHANGED <<phase, pomodoros_completed, paused_elapsed, total_elapsed>>
    /\ op' = "stop"
    /\ ret' = None
    /\ UNCHANGED <<now, config>>
    /\ TimerCall

stop ==
    /\ is_running' = FALSE
    /\ is_paused' = FALSE
    /\ paused_elapsed' = 0
    /\ start_time' = None
    /\ UNCHANGED <<phase, pomodoros_completed, total_elapsed>>
    /\ op' = "stop"
    /\ ret' = None
    /\ UNCHANGED <<now, config>>
    /\ TimerCall

\* NextPhase testing the count before the increment.
NextPhase_stale_count(ph, count, cfg) ==
    IF ph = FOCUS
    THEN IF (count - 1) % cfg.pomodoros_before_long_break = 0
         THEN LONG_BREAK ELSE SHORT_BREAK
    ELSE FOCUS

\* NextPhase that stays in a break once it is in one.
NextPhase_never_resuming(ph, count, cfg) ==
    IF ph = FOCUS
    THEN IF count % cfg.pomodoros_before_long_break = 0
         THEN LONG_BREAK ELSE SHORT_BREAK
    ELSE ph

\* The phase _advance_phase moves to; count is pomodoros_completed after the
\* increment when leaving Focus.
NextPhase(ph, count, cfg) ==
    IF ph = FOCUS
    THEN IF count % cfg.pomodoros_before_long_break = 0
         THEN LONG_BREAK ELSE SHORT_BREAK
    ELSE FOCUS

\* NextCount that counts every completed phase, breaks included.
NextCount_any_phase(ph, count) == count + 1

\* pomodoros_completed after _advance_phase.
NextCount(ph, count) == IF ph = FOCUS THEN count + 1 ELSE count

\* advance_phase that does not move the reference instant of a running timer.
advance_phase_stale_start ==
    /\ pomodoros_completed' = NextCount(phase, pomodoros_completed)
    /\ phase' = NextPhase(phase, pomodoros_completed', config)
    /\ paused_elapsed' = 0
    /\ UNCHANGED <<is_running, is_paused, start_time, total_elapsed>>

\* advance_phase that lets the new phase begin where the old one ended, so
\* that the time past the end counts for the new phase.
advance_phase_carrying_overrun ==
    /\ pomodoros_completed' = NextCount(phase, pomodoros_completed)
    /\ phase' = NextPhase(phase, pomodoros_completed', config)
    /\ paused_elapsed' = 0
    /\ start_time' = IF is_running
                     THEN Some(Val(start_time) + get_phase_duration)
                     ELSE start_time
    /\ UNCHANGED <<is_running, is_paused, total_elapsed>>

advance_phase ==
    /\ pomodoros_completed' = NextCount(phase, pomodoros_completed)
    /\ phase' = NextPhase(phase, pomodoros_completed', config)
    /\ paused_elapsed' = 0
    /\ start_time' = IF is_running THEN Some(now) ELSE start_time
    /\ UNCHANGED <<is_running, is_paused, total_elapsed>>

\* check_completion comparing with < instead of <=.
check_completion_strict ==
    /\ IF get_remaining < 0
       THEN /\ phase = FOCUS => pomodoros_completed < MaxPomodoros
            /\ advance_phase
            /\ ret' = Some(TRUE)
       ELSE /\ UNCHANGED timer
            /\ ret' = Some(FALSE)
    /\ op' = "check_completion"
    /\ UNCHANGED <<now, config>>
    /\ TimerCall

check_completion ==
    /\ IF get_remaining <= 0
       THEN /\ phase = FOCUS => pomodoros_completed < MaxPomodoros
            /\ advance_phase
            /\ ret' = Some(TRUE)
       ELSE /\ UNCHANGED timer
            /\ ret' = Some(FALSE)
    /\ op' = "check_completion"
    /\ UNCHANGED <<now, config>>
    /\ TimerCall

\* A read of the whole status (get_status_summary calls get_time_display and
\* get_progress, which call get_remaining, get_phase_duration, get_elapsed).
read_status ==
    /\ op' = "get_status_summary"
    /\ ret' = get_status_summary
    /\ UNCHANGED <<now, config, timer>>
    /\ TimerCall

\* A clock step that advances a running timer's phase by itself when the
\* phase has run out.
Tick_autonomous ==
    /\ \E d \in 1..MaxStep :
          /\ now + d <= MaxTime
          /\ now' = now + d
          /\ IF /\ is_running
                /\ Remaining(get_phase_duration, get_elapsed + d) <= 0
                /\ phase = FOCUS => pomodoros_completed < MaxPomodoros
             THEN advance_phase
             ELSE UNCHANGED timer
    /\ op' = "tick"
    /\ ret' = None
    /\ UNCHANGED config
    /\ TimerCall

\* The wall clock advances between two operations.
Tick ==
    /\ \E d \in 1..MaxStep :
          /\ now + d <= MaxTime
          /\ now' = now + d
    /\ op' = "tick"
    /\ ret' = None
    /\ UNCHANGED <<config, timer>>
    /\ TimerCall

Next ==
    \/ start
    \/ pause
    \/ stop
    \/ reset
    \/ check_completion
    \/ read_status
    \/ Tick

Spec == Init /\ [][Next]_vars

\* ---------------------------------------------------------------- settings
\* The values the settings panel can save.  Its inputs are whole minutes with
\* a minimum of at least 1, so every saved duration is positive; the model's
\* clock unit stands for the minute here, and each duration is either the
\* shortest or the longest one.
SettingsInput ==
    [focus_duration : {1, MaxDuration},
     short_break_duration : {1, MaxDuration},
     long_break_duration : {1, MaxDuration},
     pomodoros_before_long_break : 1..MaxBeforeLong]

\* Save Settings that forgets to assign the focus duration.
save_settings_dropping_focus ==
    /\ \E c \in SettingsInput :
          /\ config' = [c EXCEPT !.focus_duration = config.focus_duration]
          /\ args' = <<c>>
    /\ op' = "save_settings"
    /\ ret' = None
    /\ UNCHANGED <<now, timer, focus_completions, overrun, store,
                   notification_sent, quote_manager, shared>>

\* The Save Settings button: the four fields of the timer's config are
\* assigned.  The one-second sleep that follows is below the clock unit; any
\* longer delay is a Tick.
save_settings ==
    /\ \E c \in SettingsInput :
          /\ config' = c
          /\ args' = <<c>>
    /\ op' = "save_settings"
    /\ ret' = None
    /\ UNCHANGED <<now, timer, focus_completions, overrun, store,
                   notification_sent, quote_manager, shared>>

NextSettings ==
    \/ start
    \/ pause
    \/ stop
    \/ reset
    \/ check_completion
    \/ read_status
    \/ Tick
    \/ save_settings

\* A session of the app: its timer is constructed with positive durations.
InitSettings ==
    /\ Init
    /\ config \in SettingsInput

\* The timer of a session in which the settings may be changed.
SpecSettings == InitSettings /\ [][NextSettings]_vars

\* ---------------------------------------------------------------- statistics store
\* Largest day number date.today() reaches; the store's first day is day 0.
MaxDay == 1
\* Oldest day a storage file found at start-up may hold: day -MaxPast.
MaxPast == 1
\* Cap on the number of mutating store calls in one run.
MaxRecords == 2

\* Dates are day numbers: the order of the integers is the order of the
\* YYYY-MM-DD strings, and a difference of dates is a number of days.

\* DailyStats.add_pomodoro
add_pomodoro(s, focus_duration) ==
    [s EXCEPT !.pomodoros = @ + 1, !.focus_time = @ + focus_duration]

\* add_break taking the duration off the break time.
add_break_subtracting(s, break_duration, is_long) ==
    [s EXCEPT !.break_time = @ - break_duration,
              !.long_breaks_taken = IF is_long THEN @ + 1 ELSE @]

\* DailyStats.add_break
add_break(s, break_duration, is_long) ==
    [s EXCEPT !.break_time = @ + break_duration,
              !.long_breaks_taken = IF is_long THEN @ + 1 ELSE @]

\* DailyStats.add_cycle
add_cycle(s) == [s EXCEPT !.completed_cycles = @ + 1]

\* to_dict leaving the break time out of total_time.
to_dict_focus_only(s) ==
    [date |-> s.date,
     pomodoros |-> s.pomodoros,
     focus_time |-> s.focus_time,
     break_time |-> s.break_time,
     completed_cycles |-> s.completed_cycles,
     long_breaks_taken |-> s.long_breaks_taken,
     total_time |-> s.focus_time]

\* DailyStats.to_dict
to_dict(s) ==
    [date |-> s.date,
     pomodoros |-> s.pomodoros,
     focus_time |-> s.focus_time,
     break_time |-> s.break_time,
     completed_cycles |-> s.completed_cycles,
     long_breaks_taken |-> s.long_breaks_taken,
     total_time |-> s.focus_time + s.break_time]

\* dict.get(key, default)
Get(data, key, default) == IF key \in DOMAIN data THEN data[key] ELSE default

\* from_dict not reading completed_cycles.
from_dict_dropping_cycles(data) ==
    [date |-> data["date"],
     pomodoros |-> data["pomodoros"],
     focus_time |-> data["focus_time"],
     break_time |-> data["break_time"],
     completed_cycles |-> 0,
     long_breaks_taken |-> Get(data, "long_breaks_taken", 0)]

\* DailyStats.from_dict
from_dict(data) ==
    [date |-> data["date"],
     pomodoros |-> data["pomodoros"],
     focus_time |-> data["focus_time"],
     break_time |-> data["break_time"],
     completed_cycles |-> Get(data, "completed_cycles", 0),
     long_breaks_taken |-> Get(data, "long_breaks_taken", 0)]

\* sorted(keys, reverse=True)
RECURSIVE SortDesc(_)
SortDesc(S) ==
    IF S = {} THEN <<>>
    ELSE LET m == CHOOSE x \in S : \A y \in S : y <= x
         IN <<m>> \o SortDesc(S \ {m})

\* The loop of _update_streak counting an older date across a gap of any
\* number of days.
RECURSIVE StreakWalk_bridging_gaps(_, _, _, _)
StreakWalk_bridging_gaps(h, dates, i, t) ==
    IF i > Len(dates) THEN 0
    ELSE LET delta == IF i = 1 THEN t - dates[1] ELSE dates[i - 1] - dates[i]
             near == IF i = 1 THEN delta <= 1 ELSE delta >= 1
         IN IF near /\ h[dates[i]].pomodoros > 0
            THEN 1 + StreakWalk_bridging_gaps(h, dates, i + 1, t)
            ELSE 0

\* The loop of _update_streak from index i (1-based) on: the number of dates
\* counted before the first break.
RECURSIVE StreakWalk(_, _, _, _)
StreakWalk(h, dates, i, t) ==
    IF i > Len(dates) THEN 0
    ELSE LET delta == IF i = 1 THEN t - dates[1] ELSE dates[i - 1] - dates[i]
             near == IF i = 1 THEN delta <= 1 ELSE delta = 1
         IN IF near /\ h[dates[i]].pomodoros > 0
            THEN 1 + StreakWalk(h, dates, i + 1, t)
            ELSE 0

\* The streak _update_streak assigns, for history h on day t.
UpdateStreak(h, t) == StreakWalk(h, SortDesc(DOMAIN h), 1, t)

\* history[k] = v
Put(h, k, v) == [d \in DOMAIN h \cup {k} |-> IF d = k THEN v ELSE h[d]]

\* The document _save writes for history h and streak s on day t.
Document(h, s, t) ==
    [kind |-> "doc",
     history |-> [d \in DOMAIN h |-> to_dict(h[d])],
     streak |-> s,
     last_updated |-> t]

\* The contents of a file that is not JSON.
Corrupt == [kind |-> "corrupt"]

\* The contents of a file that is JSON but whose top level is not an object
\* (a list, null, a number).
NotObject == [kind |-> "not_object"]

\* A JSON value that is not an object, found where a day's entry should be.
Scalar == [scalar |-> TRUE]

\* What from_dict(data) raises, if anything: subscripting a value that is not
\* an object is a TypeError, a missing required key is a KeyError.
FromDictError(data) ==
    IF "scalar" \in DOMAIN data THEN Some("TypeError")
    ELSE IF {"date", "pomodoros", "focus_time", "break_time"}
                \subseteq DOMAIN data
         THEN None
         ELSE Some("KeyError")

\* What reading a JSON object raises inside _load, if anything.  The field
\* "undated" of a file is the entry stored under a key that is not a date and
\* sorts after every date (such as "notes"): from_dict reads it like any other
\* entry, and strptime in _update_streak raises ValueError on its key, the
\* first of the sorted keys.  A file of the model holds at most one entry
\* that from_dict cannot read.
LoadError(file) ==
    LET bad == {d \in DOMAIN file.history :
                   FromDictError(file.history[d]) # None}
    IN IF bad # {}
       THEN FromDictError(file.history[CHOOSE d \in bad : TRUE])
       ELSE IF "undated" \in DOMAIN file
            THEN IF FromDictError(file.undated) # None
                 THEN FromDictError(file.undated)
                 ELSE Some("ValueError")
            ELSE None

\* The fields the except branch of _load assigns on day t.
StartFresh(t) ==
    [history |-> <<>>, current_day |-> DailyStats(t), streak |-> 0,
     raised |-> None]

\* StatsTracker(...) propagates exception e on day t: the caller gets no
\* store; the fields are shown as __init__ assigned them before _load.
Propagates(t, e) ==
    [history |-> <<>>, current_day |-> DailyStats(t), streak |-> 0,
     raised |-> Some(e)]

\* _load keeping the streak the file holds.
Load_trusting_stored_streak(file, t) ==
    IF file.kind = "doc" /\ LoadError(file) = None
    THEN LET h == [d \in DOMAIN file.history |-> from_dict(file.history[d])]
         IN [history |-> h,
             current_day |-> IF t \in DOMAIN h THEN h[t] ELSE DailyStats(t),
             streak |-> file.streak,
             raised |-> None]
    ELSE StartFresh(t)

\* _load that always begins the day with an empty entry.
Load_forgetting_today(file, t) ==
    IF file.kind = "doc" /\ LoadError(file) = None
    THEN LET h == [d \in DOMAIN file.history |-> from_dict(file.history[d])]
         IN [history |-> h,
             current_day |-> DailyStats(t),
             streak |-> UpdateStreak(h, t),
             raised |-> None]
    ELSE StartFresh(t)

\* The fields _load leaves for a file read on day t, and the exception it
\* lets through: it catches JSONDecodeError and KeyError only.
Load(file, t) ==
    IF file.kind = "missing"
    THEN [history |-> <<>>, current_day |-> DailyStats(t),
          streak |-> UpdateStreak(<<>>, t), raised |-> None]
    ELSE IF file.kind = "corrupt" THEN StartFresh(t)
    ELSE IF file.kind = "not_object" THEN Propagates(t, "AttributeError")
    ELSE IF LoadError(file) = Some("KeyError") THEN StartFresh(t)
    ELSE IF LoadError(file) # None THEN Propagates(t, Val(LoadError(file)))
    ELSE LET h == [d \in DOMAIN file.history |-> from_dict(file.history[d])]
         IN [history |-> h,
             current_day |-> IF t \in DOMAIN h THEN h[t] ELSE DailyStats(t),
             streak |-> UpdateStreak(h, t),
             raised |-> None]

\* An entry an earlier run left for day d: no activity but a reset, or one
\* pomodoro.
EarlierEntries(d) == {DailyStats(d), add_pomodoro(DailyStats(d), 1)}

\* The histories an earlier run may have saved: entries for some of the days
\* -MaxPast .. 0, at least one.
EarlierHistories ==
    UNION {[D -> UNION {EarlierEntries(d) : d \in D}] :
              D \in (SUBSET ((0 - MaxPast)..0)) \ {{}}}

\* Of those, the ones whose entry for each day carries that day's date.
SavedHistories == {h \in EarlierHistories : \A d \in DOMAIN h : h[d].date = d}

\* The newest date of a history.
Newest(h) == CHOOSE x \in DOMAIN h : \A y \in DOMAIN h : y <= x

\* A stored entry as a release without the two later counters, or a hand
\* edit, may have left it: completed_cycles and long_breaks_taken are absent
\* and total_time is not the sum of the two times.
OlderFormat(e) ==
    [date |-> e.date, pomodoros |-> e.pomodoros, focus_time |-> e.focus_time,
     break_time |-> e.break_time, total_time |-> e.total_time + 1]

\* A document with every entry in that form and a streak nobody computed.
HandEdited(doc) ==
    [doc EXCEPT !.history = [d \in DOMAIN @ |-> OlderFormat(@[d])],
                !.streak = @ + 1]

\* The documents an earlier run left: each saved on the newest day of its
\* history.
SavedDocuments ==
    {Document(h, UpdateStreak(h, Newest(h)), Newest(h)) : h \in SavedHistories}

\* What the storage file may hold when the program starts: nothing, text
\* that is not JSON, a document an earlier run saved, or such a document in
\* the older or edited form.
InitialStorage ==
    {Missing, Corrupt} \cup SavedDocuments
        \cup {HandEdited(doc) : doc \in SavedDocuments}

\* The timer's variables and the other objects, which no operation of this
\* store touches.
TimerIdle ==
    UNCHANGED <<now, config, timer, focus_completions, overrun,
                notification_sent, quote_manager, shared>>

\* _save writing only the entry it has just put into the history.
Save_today_only(cd) ==
    /\ history' = Put(history, cd.date, cd)
    /\ streak' = UpdateStreak(history', today)
    /\ storage' = Document([d \in {cd.date} |-> cd], streak', today)

\* _save: today's object is put into the history, the streak is recomputed
\* and the whole history is written.
Save(cd) ==
    /\ history' = Put(history, cd.date, cd)
    /\ streak' = UpdateStreak(history', today)
    /\ storage' = Document(history', streak', today)

\* StatsTracker(storage_path) on day 0, next to a timer that is not used.
StatsInit ==
    /\ now = 0
    /\ config = [focus_duration |-> MaxDuration,
                 short_break_duration |-> 1,
                 long_break_duration |-> MaxDuration,
                 pomodoros_before_long_break |-> MaxBeforeLong]
    /\ phase = FOCUS
    /\ pomodoros_completed = 0
    /\ is_running = FALSE
    /\ is_paused = FALSE
    /\ start_time = None
    /\ paused_elapsed = 0
    /\ total_elapsed = 0
    /\ focus_completions = 0
    /\ overrun = 0
    /\ op = "init"
    /\ ret = None
    /\ args = <<>>
    /\ today = 0
    /\ storage \in InitialStorage
    /\ history = Load(storage, today).history
    /\ current_day = Load(storage, today).current_day
    /\ streak = Load(storage, today).streak
    /\ raised = Load(storage, today).raised
    /\ records = 0
    /\ notification_sent = FALSE
    /\ used_quotes = [voice \in Voice |-> <<>>]
    /\ served = [voice \in Voice |-> <<>>]
    /\ second = None
    /\ found = 0

\* The program is started again: a new StatsTracker loads the file.
construct ==
    /\ history' = Load(storage, today).history
    /\ current_day' = Load(storage, today).current_day
    /\ streak' = Load(storage, today).streak
    /\ raised' = Load(storage, today).raised
    /\ op' = "construct"
    /\ ret' = None
    /\ args' = <<>>
    /\ UNCHANGED <<today, storage, records>>
    /\ TimerIdle

\* The durations the record operations are called with: the shortest and the
\* longest a phase can have.
RecordedDurations == {1, MaxDuration}

record_pomodoro ==
    /\ raised = None
    /\ records < MaxRecords
    /\ \E focus_duration \in RecordedDurations :
          /\ current_day' = add_pomodoro(current_day, focus_duration)
          /\ args' = <<focus_duration>>
    /\ Save(current_day')
    /\ records' = records + 1
    /\ op' = "record_pomodoro"
    /\ ret' = None
    /\ UNCHANGED <<today, raised>>
    /\ TimerIdle

record_break ==
    /\ raised = None
    /\ records < MaxRecords
    /\ \E break_duration \in RecordedDurations, is_long \in BOOLEAN :
          /\ current_day' = add_break(current_day, break_duration, is_long)
          /\ args' = <<break_duration, is_long>>
    /\ Save(current_day')
    /\ records' = records + 1
    /\ op' = "record_break"
    /\ ret' = None
    /\ UNCHANGED <<today, raised>>
    /\ TimerIdle

record_cycle ==
    /\ raised = None
    /\ records < MaxRecords
    /\ current_day' = add_cycle(current_day)
    /\ Save(current_day')
    /\ records' = records + 1
    /\ op' = "record_cycle"
    /\ ret' = None
    /\ args' = <<>>
    /\ UNCHANGED <<today, raised>>
    /\ TimerIdle

\* reset_today emptying the entry of the day current_day was created for.
reset_today_stale_date ==
    /\ raised = None
    /\ records < MaxRecords
    /\ current_day' = DailyStats(current_day.date)
    /\ Save(current_day')
    /\ records' = records + 1
    /\ op' = "reset_today"
    /\ ret' = None
    /\ args' = <<>>
    /\ UNCHANGED <<today, raised>>
    /\ TimerIdle

\* reset_today: a fresh DailyStats (dated today) replaces the entry of its
\* date; _update_streak and _save follow, and _save repeats both steps.
reset_today ==
    /\ raised = None
    /\ records < MaxRecords
    /\ current_day' = DailyStats(today)
    /\ Save(current_day')
    /\ records' = records + 1
    /\ op' = "reset_today"
    /\ ret' = None
    /\ args' = <<>>
    /\ UNCHANGED <<today, raised>>
    /\ TimerIdle

get_today_summary ==
    /\ raised = None
    /\ op' = "get_today_summary"
    /\ ret' = to_dict(current_day)
    /\ args' = <<>>
    /\ UNCHANGED store
    /\ TimerIdle

\* The entry get_weekly_summary appends for day d.
WeeklyEntry(h, d) ==
    IF d \in DOMAIN h THEN to_dict(h[d])
    ELSE [date |-> d, pomodoros |-> 0, focus_time |-> 0, break_time |-> 0,
          completed_cycles |-> 0, long_breaks_taken |-> 0, total_time |-> 0]

\* get_weekly_summary listing the week from its oldest day to today.
get_weekly_summary_oldest_first ==
    /\ raised = None
    /\ op' = "get_weekly_summary"
    /\ ret' = [i \in 1..7 |-> WeeklyEntry(history, today - (7 - i))]
    /\ args' = <<>>
    /\ UNCHANGED store
    /\ TimerIdle

get_weekly_summary ==
    /\ raised = None
    /\ op' = "get_weekly_summary"
    /\ ret' = [i \in 1..7 |-> WeeklyEntry(history, today - (i - 1))]
    /\ args' = <<>>
    /\ UNCHANGED store
    /\ TimerIdle

get_streak ==
    /\ raised = None
    /\ op' = "get_streak"
    /\ ret' = streak
    /\ args' = <<>>
    /\ UNCHANGED store
    /\ TimerIdle

\* Midnight passes: date.today() moves to the next day.
NextDay ==
    /\ today < MaxDay
    /\ today' = today + 1
    /\ op' = "midnight"
    /\ ret' = None
    /\ args' = <<>>
    /\ UNCHANGED <<history, current_day, streak, storage, records, raised>>
    /\ TimerIdle

StatsNext ==
    \/ construct
    \/ record_pomodoro
    \/ record_break
    \/ record_cycle
    \/ reset_today
    \/ get_today_summary
    \/ get_weekly_summary
    \/ get_streak
    \/ NextDay

\* The statistics store of a process that may run past midnight and may be
\* started again.
StatsSpec == StatsInit /\ [][StatsNext]_vars

\* ---------------------------------------------------------------- start-up
\* Oldest day a file found at start-up may hold, for the load itself:
\* day -MaxGap.
MaxGap == 3
\* Newest such day: a file written where the calendar was ahead (another time
\* zone, a clock set back since) holds days up to MaxAhead.
MaxAhead == 1

\* The histories such a file may hold: entries for some of the days
\* -MaxGap .. MaxAhead, at least one, each with one pomodoro or with none.
FoundHistories ==
    UNION {{[d \in D |-> IF d \in P THEN add_pomodoro(DailyStats(d), 1)
                                    ELSE DailyStats(d)] : P \in SUBSET D} :
              D \in (SUBSET ((0 - MaxGap)..MaxAhead)) \ {{}}}

\* The documents the program itself would have written for them.
FoundDocuments ==
    {Document(h, UpdateStreak(h, Newest(h)), Newest(h)) : h \in FoundHistories}

\* The document with its newest entry replaced by a value that is not an
\* object.
WithScalarEntry(doc) ==
    [doc EXCEPT !.history[Newest(doc.history)] = Scalar]

\* The document with its newest entry stripped of all fields but the date.
WithIncompleteEntry(doc) ==
    [doc EXCEPT !.history[Newest(doc.history)] = [date |-> @.date]]

\* The document with one more entry, stored under a key that is not a date.
WithUndatedKey(doc) ==
    [kind |-> "doc", history |-> doc.history, streak |-> doc.streak,
     last_updated |-> doc.last_updated,
     undated |-> to_dict(add_pomodoro(DailyStats(0), 1))]

\* Whatever the file at storage_path may hold when a store is constructed.
FoundStorage ==
    {Missing, Corrupt, NotObject}
        \cup FoundDocuments
        \cup {HandEdited(doc) : doc \in FoundDocuments}
        \cup {WithScalarEntry(doc) : doc \in FoundDocuments}
        \cup {WithIncompleteEntry(doc) : doc \in FoundDocuments}
        \cup {WithUndatedKey(doc) : doc \in FoundDocuments}

\* StatsTracker(storage_path) on day 0 on any such file, next to a timer that
\* is not used.
LoadInit ==
    /\ now = 0
    /\ config = [focus_duration |-> MaxDuration,
                 short_break_duration |-> 1,
                 long_break_duration |-> MaxDuration,
                 pomodoros_before_long_break |-> MaxBeforeLong]
    /\ phase = FOCUS
    /\ pomodoros_completed = 0
    /\ is_running = FALSE
    /\ is_paused = FALSE
    /\ start_time = None
    /\ paused_elapsed = 0
    /\ total_elapsed = 0
    /\ focus_completions = 0
    /\ overrun = 0
    /\ op = "init"
    /\ ret = None
    /\ args = <<>>
    /\ today = 0
    /\ storage \in FoundStorage
    /\ history = Load(storage, today).history
    /\ current_day = Load(storage, today).current_day
    /\ streak = Load(storage, today).streak
    /\ raised = Load(storage, today).raised
    /\ records = 0
    /\ notification_sent = FALSE
    /\ used_quotes = [voice \in Voice |-> <<>>]
    /\ served = [voice \in Voice |-> <<>>]
    /\ second = None
    /\ found = 0

LoadNext ==
    \/ construct
    \/ get_today_summary
    \/ get_weekly_summary
    \/ get_streak
    \/ NextDay

\* A store that is constructed, on this day or a later one, on a file it did
\* not write, and is then only read.
LoadSpec == LoadInit /\ [][LoadNext]_vars

\* ---------------------------------------------------------------- shared storage
\* Two StatsTracker objects on one storage_path, each in a process of its own.
\* Each object reads the file once, in its constructor; a record call changes
\* the object's own current_day and writes the object's whole history over
\* the file.  The memory of one object is out of the other's reach, and of
\* two writes the file keeps the later one, so that a record call is one step.

\* The fields of a second tracker constructed on the file on day t.
SecondTracker(file, t) ==
    [history |-> Load(file, t).history,
     current_day |-> Load(file, t).current_day,
     streak |-> Load(file, t).streak,
     records |-> 0]

\* The pomodoros the file holds for day t.
StoredPomodoros(file, t) ==
    IF file.kind = "doc" /\ t \in DOMAIN file.history
    THEN file.history[t].pomodoros
    ELSE 0

\* Both trackers have been constructed on the same file on day 0.
SharedInit ==
    /\ now = 0
    /\ config = [focus_duration |-> MaxDuration,
                 short_break_duration |-> 1,
                 long_break_duration |-> MaxDuration,
                 pomodoros_before_long_break |-> MaxBeforeLong]
    /\ phase = FOCUS
    /\ pomodoros_completed = 0
    /\ is_running = FALSE
    /\ is_paused = FALSE
    /\ start_time = None
    /\ paused_elapsed = 0
    /\ total_elapsed = 0
    /\ focus_completions = 0
    /\ overrun = 0
    /\ op = "init"
    /\ ret = None
    /\ args = <<>>
    /\ today = 0
    /\ storage \in InitialStorage
    /\ history = Load(storage, today).history
    /\ current_day = Load(storage, today).current_day
    /\ streak = Load(storage, today).streak
    /\ raised = Load(storage, today).raised
    /\ records = 0
    /\ notification_sent = FALSE
    /\ used_quotes = [voice \in Voice |-> <<>>]
    /\ served = [voice \in Voice |-> <<>>]
    /\ second = SecondTracker(storage, today)
    /\ found = StoredPomodoros(storage, today)

\* record_pomodoro of a tracker that reads the file again before it adds.
second_record_pomodoro_reloading ==
    /\ records < MaxRecords
    /\ \E focus_duration \in RecordedDurations :
          LET cd == add_pomodoro(Load(storage, today).current_day,
                                 focus_duration)
              h == Put(Load(storage, today).history, cd.date, cd)
              s == UpdateStreak(h, today)
          IN /\ second' = [history |-> h, current_day |-> cd, streak |-> s,
                           records |-> second.records + 1]
             /\ storage' = Document(h, s, today)
             /\ args' = <<focus_duration>>
    /\ records' = records + 1
    /\ op' = "second.record_pomodoro"
    /\ ret' = None
    /\ UNCHANGED <<today, history, current_day, streak, raised, found>>
    /\ UNCHANGED <<now, config, timer, focus_completions, overrun,
                   notification_sent, quote_manager>>

\* record_pomodoro(focus_duration) on the second tracker: add_pomodoro on its
\* current_day, then _save of its history.
second_record_pomodoro ==
    /\ records < MaxRecords
    /\ \E focus_duration \in RecordedDurations :
          LET cd == add_pomodoro(second.current_day, focus_duration)
              h == Put(second.history, cd.date, cd)
              s == UpdateStreak(h, today)
          IN /\ second' = [history |-> h, current_day |-> cd, streak |-> s,
                           records |-> second.records + 1]
             /\ storage' = Document(h, s, today)
             /\ args' = <<focus_duration>>
    /\ records' = records + 1
    /\ op' = "second.record_pomodoro"
    /\ ret' = None
    /\ UNCHANGED <<today, history, current_day, streak, raised, found>>
    /\ UNCHANGED <<now, config, timer, focus_completions, overrun,
                   notification_sent, quote_manager>>

SharedNext ==
    \/ record_pomodoro
    \/ second_record_pomodoro

SharedSpec == SharedInit /\ [][SharedNext]_vars

\* ---------------------------------------------------------------- application
\* The configs of a session of the application: a short or a long focus phase,
\* breaks of one clock unit, any number of pomodoros before the long break.
AppConfigs ==
    {cfg \in SettingsInput :
        cfg.short_break_duration = 1 /\ cfg.long_break_duration = 1}

\* The session state and the module-level stats_tracker when the page is first
\* run: a fresh timer, no storage file.
AppInit ==
    /\ Init
    /\ config \in AppConfigs

\* The Start button, shown while the timer is not running.
press_start ==
    /\ ~is_running
    /\ start

\* The Pause button, shown while the timer is running.
press_pause ==
    /\ is_running
    /\ pause

\* The Stop button: timer.stop() and the notification flag is cleared.
press_stop ==
    /\ is_running' = FALSE
    /\ is_paused' = FALSE
    /\ paused_elapsed' = 0
    /\ start_time' = None
    /\ notification_sent' = FALSE
    /\ op' = "stop"
    /\ ret' = None
    /\ args' = <<>>
    /\ overrun' = 0
    /\ UNCHANGED <<phase, pomodoros_completed, total_elapsed, now, config,
                   focus_completions, store, quote_manager, shared>>

\* The Reset button: timer.reset() and the notification flag is cleared.
press_reset ==
    /\ ResetState
    /\ notification_sent' = FALSE
    /\ focus_completions' = 0
    /\ overrun' = 0
    /\ op' = "reset"
    /\ ret' = None
    /\ args' = <<>>
    /\ UNCHANGED <<now, config, store, quote_manager, shared>>

\* What the polling block of main records after an advance to phase ph: the
\* current_day object after the record calls, and the number of those calls.
PollRecords(ph, cd, cfg) ==
    IF ph = SHORT_BREAK
    THEN [day |-> add_cycle(add_break(add_pomodoro(cd, cfg.focus_duration),
                                      cfg.short_break_duration, FALSE)),
          calls |-> 3]
    ELSE [day |-> add_break(cd, cfg.long_break_duration, TRUE), calls |-> 1]

\* One pass of the polling block of main: check_completion and, on a positive
\* answer not yet notified, the record calls for the phase just entered (each
\* of them saves; the last save leaves the file).  The quotes it fetches for
\* display come from quote_manager, an object of its own that neither the
\* timer nor the statistics read; they are the subject of QuoteSpec.
poll ==
    /\ IF get_remaining <= 0
       THEN /\ phase = FOCUS => pomodoros_completed < MaxPomodoros
            /\ advance_phase
            /\ ret' = Some(TRUE)
            /\ IF ~notification_sent
               THEN /\ notification_sent' = TRUE
                    /\ IF phase' = FOCUS
                       THEN UNCHANGED <<history, current_day, streak, storage,
                                        records>>
                       ELSE LET rec == PollRecords(phase', current_day, config)
                            IN /\ current_day' = rec.day
                               /\ Save(current_day')
                               /\ records' = records + rec.calls
               ELSE UNCHANGED <<notification_sent, history, current_day,
                                streak, storage, records>>
       ELSE /\ UNCHANGED timer
            /\ ret' = Some(FALSE)
            /\ notification_sent' = FALSE
            /\ UNCHANGED <<history, current_day, streak, storage, records>>
    /\ focus_completions' =
          IF ret' = Some(TRUE) /\ phase = FOCUS THEN focus_completions + 1
          ELSE focus_completions
    /\ overrun' =
          IF ret' = Some(TRUE) THEN get_elapsed - get_phase_duration ELSE 0
    /\ op' = "poll"
    /\ args' = <<>>
    /\ UNCHANGED <<now, config, today, raised, quote_manager, shared>>

AppNext ==
    \/ press_start
    \/ press_pause
    \/ press_stop
    \/ press_reset
    \/ poll
    \/ Tick

\* A session of the application: the buttons, the polling block and the clock.
AppSpec == AppInit /\ [][AppNext]_vars

\* ---------------------------------------------------------------- running timer
\* The timer left running for an unbounded time.  get_elapsed reads the clock
\* only as time.time() - start_time, so the clock is kept relative to the
\* present: now stays where it is and the passage of d units moves the stored
\* reading start_time d units into the past.  A timer that is not running
\* never reads start_time (get_elapsed returns paused_elapsed, start
\* overwrites it), so the passage of time leaves it as it is.  A phase is let
\* run at most MaxTime units past its start before the next poll.
LiveTick ==
    /\ \E d \in 1..MaxStep :
          IF is_running /\ start_time # None
          THEN /\ get_elapsed + d <= MaxTime
               /\ start_time' = Some(Val(start_time) - d)
          ELSE UNCHANGED start_time
    /\ op' = "tick"
    /\ ret' = None
    /\ UNCHANGED <<now, config, phase, pomodoros_completed, is_running,
                   is_paused, paused_elapsed, total_elapsed>>
    /\ TimerCall

\* Configs with positive durations.
LiveConfigs == SettingsInput

LiveInit ==
    /\ Init
    /\ config \in LiveConfigs

LiveNext ==
    \/ start
    \/ pause
    \/ stop
    \/ reset
    \/ check_completion
    \/ LiveTick

\* main() ends every run of the script of a running timer with
\* time.sleep(0.1) and st.rerun(), and each run whose clock reading is more
\* than 0.5 s after last_check calls timer.check_completion(): while the
\* timer is running it is polled again and again.  The clock itself never
\* stops.
LiveSpec ==
    /\ LiveInit
    /\ [][LiveNext]_vars
    /\ WF_vars(is_running /\ check_completion)
    /\ WF_vars(LiveTick)

\* ---------------------------------------------------------------- quotes
\* The number of quotes QUOTES holds for each voice; quote q of a voice is
\* the q-th string of its list (the strings of a list are all different).
NumQuotes == 5
Quotes == 1..NumQuotes
\* The number of used quotes get_quote keeps.
KeptQuotes == 3
\* Cap on the number of quotes fetched in one run.
MaxFetched == 5

\* The quotes of a list.
Range(seq) == {seq[i] : i \in DOMAIN seq}

\* The last n elements of a list, seq[-n:].
Last(seq, n) ==
    IF Len(seq) <= n THEN seq ELSE SubSeq(seq, Len(seq) - n + 1, Len(seq))

\* The quotes get_quote chooses from, for a voice whose used list is used.
Available(used) ==
    IF Quotes \ Range(used) = {} THEN Quotes ELSE Quotes \ Range(used)

\* The used list of a voice after get_quote has returned quote.
Used(used, quote) ==
    Last(Append(IF Quotes \ Range(used) = {} THEN <<>> ELSE used, quote),
         KeptQuotes)

\* The number of quotes fetched so far.
RECURSIVE Fetched(_)
Fetched(voices) ==
    IF voices = {} THEN 0
    ELSE LET v == CHOOSE v \in voices : TRUE
         IN Len(served[v]) + Fetched(voices \ {v})

\* The quote manager's part of a step in which the quotes chosen[v] are
\* returned for the voices of DOMAIN chosen.
Fetch(chosen) ==
    /\ \A v \in DOMAIN chosen : chosen[v] \in Available(used_quotes[v])
    /\ used_quotes' = [v \in Voice |->
          IF v \in DOMAIN chosen THEN Used(used_quotes[v], chosen[v])
          ELSE used_quotes[v]]
    /\ served' = [v \in Voice |->
          IF v \in DOMAIN chosen THEN Append(served[v], chosen[v])
          ELSE served[v]]

\* Everything but the quote manager.
QuotesOnly ==
    UNCHANGED <<now, config, timer, focus_completions, overrun,
                notification_sent, store, shared>>

get_quote ==
    /\ Fetched(Voice) + 1 <= MaxFetched
    /\ \E voice \in Voice, quote \in Quotes :
          /\ Fetch([v \in {voice} |-> quote])
          /\ args' = <<voice>>
          /\ ret' = quote
    /\ op' = "get_quote"
    /\ QuotesOnly

\* get_break_quote: one quote of every voice for a long break, one quote of
\* a random voice otherwise.
get_break_quote ==
    /\ \E is_long_break \in BOOLEAN :
          /\ Fetched(Voice) + (IF is_long_break THEN Cardinality(Voice) ELSE 1)
                <= MaxFetched
          /\ args' = <<is_long_break>>
          /\ \E chosen \in IF is_long_break
                           THEN [Voice -> Quotes]
                           ELSE UNION {[{v} -> Quotes] : v \in Voice} :
                /\ Fetch(chosen)
                /\ ret' = chosen
    /\ op' = "get_break_quote"
    /\ QuotesOnly

\* QuoteManager.reset: the manager is fresh again.
quote_reset ==
    /\ used_quotes' = [voice \in Voice |-> <<>>]
    /\ served' = [voice \in Voice |-> <<>>]
    /\ op' = "quote_reset"
    /\ ret' = None
    /\ args' = <<>>
    /\ QuotesOnly

QuoteNext ==
    \/ get_quote
    \/ get_break_quote
    \/ quote_reset

\* QuoteManager(), next to a timer and a store that are not used.
QuoteInit ==
    /\ Init
    /\ config = [focus_duration |-> 1,
                 short_break_duration |-> 1,
                 long_break_duration |-> 1,
                 pomodoros_before_long_break |-> 1]

QuoteSpec == QuoteInit /\ [][QuoteNext]_vars

\* ---------------------------------------------------------------- properties
\* A check_completion call that advanced the phase has just been made.
Advanced == op = "check_completion" /\ ret = Some(TRUE)

PositiveDurations(cfg) ==
    /\ cfg.focus_duration > 0
    /\ cfg.short_break_duration > 0
    /\ cfg.long_break_duration > 0

\* C1: whenever check_completion advances the phase, leaving Focus adds
\* exactly 1 to pomodoros_completed and leads to LongBreak if the new count is
\* a multiple of pomodoros_before_long_break and to ShortBreak otherwise;
\* leaving ShortBreak or LongBreak leads to Focus with the count unchanged.
C1_AdvancePolicy ==
    [][Advanced' =>
        IF phase = FOCUS
        THEN /\ pomodoros_completed' = pomodoros_completed + 1
             /\ phase' = IF pomodoros_completed'
                               % config.pomodoros_before_long_break = 0
                         THEN LONG_BREAK ELSE SHORT_BREAK
        ELSE /\ phase' = FOCUS
             /\ pomodoros_completed' = pomodoros_completed]_vars

\* A Focus completion that led to ShortBreak although one pomodoro was
\* already completed (the count is 2, the threshold 3).
C1_Witness ==
    /\ Advanced
    /\ phase = SHORT_BREAK
    /\ pomodoros_completed = 2
    /\ config.pomodoros_before_long_break = 3

\* C2: with an unchanged config, LongBreak implies that pomodoros_completed
\* is a positive multiple of pomodoros_before_long_break, and ShortBreak
\* implies that it is not a multiple.
C2_BreakKindMatchesCount ==
    /\ phase = LONG_BREAK =>
          /\ pomodoros_completed >= 1
          /\ pomodoros_completed % config.pomodoros_before_long_break = 0
    /\ phase = SHORT_BREAK =>
          pomodoros_completed % config.pomodoros_before_long_break # 0

\* With the value 2, the second Focus completion has led to LongBreak.
C2_Witness ==
    /\ Advanced
    /\ config.pomodoros_before_long_break = 2
    /\ phase = LONG_BREAK
    /\ pomodoros_completed = 2

C4_FreshCountdownAfterAdvance ==
    [][/\ Advanced' =>
            /\ get_elapsed' = 0
            /\ is_running' = is_running
            /\ is_paused' = is_paused
            /\ is_running => start_time' = Some(now)
       /\ (Advanced /\ op' = "check_completion" /\ PositiveDurations(config))
            => ret' = Some(FALSE)]_vars

\* A second poll right after an advance of a running timer returned false.
C4_Witness ==
    /\ op = "check_completion"
    /\ ret = Some(FALSE)
    /\ is_running
    /\ start_time = Some(now)
    /\ now > 0
    /\ phase # FOCUS
    /\ PositiveDurations(config)

\* C5: phase and pomodoros_completed change only by a check_completion that
\* returns true or by reset (which sets the phase to Focus); start, pause,
\* stop, the reads and the passage of time never change them.
C5_PhaseChangesOnlyByAdvanceOrReset ==
    [][/\ (phase' # phase \/ pomodoros_completed' # pomodoros_completed)
            => (Advanced' \/ op' = "reset")
       /\ op' = "reset" => phase' = FOCUS
       /\ op' \in {"start", "pause", "stop", "get_status_summary", "tick"}
            => UNCHANGED <<phase, pomodoros_completed>>]_vars

\* The clock has run past the end of a running Focus phase and the phase is
\* still Focus.
C5_Witness ==
    /\ op = "tick"
    /\ is_running
    /\ phase = FOCUS
    /\ get_phase_duration > 0
    /\ get_elapsed > get_phase_duration + 1

\* C6: start() on a timer that is not running sets is_running, clears
\* is_paused and leaves the elapsed time as it was read before the call.
C6_StartPreservesElapsed ==
    [][(op' = "start" /\ ~is_running) =>
        /\ is_running'
        /\ ~is_paused'
        /\ get_elapsed' = get_elapsed]_vars

\* A resume after a pause during which the clock advanced: the banked time is
\* positive and the reference instant lies after the first start.
C6_Witness ==
    /\ op = "start"
    /\ is_running
    /\ paused_elapsed > 0
    /\ get_elapsed = paused_elapsed
    /\ Val(start_time) > 0
    /\ pomodoros_completed = 0

\* C7: pause() on a running timer banks the elapsed time in paused_elapsed,
\* clears is_running and sets is_paused; afterwards get_elapsed keeps that
\* value however far the clock advances, until start, stop, reset or an
\* advance.
C7_PauseFreezesElapsed ==
    [][/\ (op' = "pause" /\ is_running) =>
            /\ paused_elapsed' = get_elapsed
            /\ ~is_running'
            /\ is_paused'
            /\ get_elapsed' = get_elapsed
       /\ (is_paused /\ op' \notin {"start", "stop", "reset"} /\ ~Advanced')
            => /\ get_elapsed' = get_elapsed
               /\ paused_elapsed' = paused_elapsed
               /\ is_paused']_vars

\* A paused timer with banked time over which the clock has advanced.
C7_Witness ==
    /\ op = "tick"
    /\ is_paused
    /\ paused_elapsed > 0
    /\ now - Val(start_time) > paused_elapsed

\* C8: start() while running and pause() while not running change no field
\* of the timer.
C8_RepeatedStartPauseNoOp ==
    [][((op' = "start" /\ is_running) \/ (op' = "pause" /\ ~is_running))
         => UNCHANGED timer]_vars

\* A pause made on a paused timer after the clock moved on: the banked time
\* is still the one of the first pause.
C8_Witness ==
    /\ op = "pause"
    /\ is_paused
    /\ paused_elapsed > 0
    /\ now - Val(start_time) > paused_elapsed

\* C9: stop() leaves is_running and is_paused false, paused_elapsed 0 and
\* start_time absent without changing phase or pomodoros_completed; a start()
\* right after it begins the phase again with elapsed 0 and the full duration
\* remaining.
C9_StopClearsCountdown ==
    [][/\ op' = "stop" =>
            /\ ~is_running'
            /\ ~is_paused'
            /\ paused_elapsed' = 0
            /\ start_time' = None
            /\ UNCHANGED <<phase, pomodoros_completed>>
       /\ (op = "stop" /\ op' = "start") =>
            /\ get_elapsed' = 0
            /\ get_remaining' = get_phase_duration]_vars

\* A stop made in a break phase after the clock advanced.
C9_Witness ==
    /\ op = "stop"
    /\ phase = LONG_BREAK
    /\ pomodoros_completed > 0
    /\ now > 0

\* C10: reset() returns the engine to the state of a freshly constructed
\* timer with the same config and does not change the config.
C10_ResetIsFreshTimer ==
    [][op' = "reset" =>
        /\ phase' = FOCUS
        /\ pomodoros_completed' = 0
        /\ ~is_running'
        /\ ~is_paused'
        /\ start_time' = None
        /\ paused_elapsed' = 0
        /\ total_elapsed' = 0
        /\ config' = config]_vars

\* A reset made after the session had left its initial state.
C10_Witness ==
    /\ op = "reset"
    /\ now > 0
    /\ phase = FOCUS
    /\ pomodoros_completed = 0
    /\ start_time = None

\* C11: is_running and is_paused are never both true.
C11_RunningPausedExclusive == ~(is_running /\ is_paused)

\* A running timer has just been paused: the two flags have swapped.
C11_Witness ==
    /\ op = "pause"
    /\ is_paused
    /\ ~is_running
    /\ paused_elapsed > 0

\* C12: pomodoros_completed is non-negative, is lowered only by reset (to 0),
\* and equals the number of check_completion calls that returned true while
\* the phase was Focus since the last reset.
C12_CountIsFocusCompletions ==
    [][/\ pomodoros_completed' >= 0
       /\ pomodoros_completed' = focus_completions'
       /\ op' # "reset" => pomodoros_completed' >= pomodoros_completed
       /\ op' = "reset" => pomodoros_completed' = 0]_vars

\* Two Focus phases and the break between them have been completed.
C12_Witness ==
    /\ Advanced
    /\ phase # FOCUS
    /\ focus_completions = 2
    /\ pomodoros_completed = 2

\* C13 as stated: with positive durations, in every state in which the timer
\* is stopped or paused, get_remaining + get_elapsed = get_phase_duration.
C13_AsStated ==
    (~is_running /\ PositiveDurations(config))
        => get_remaining + get_elapsed = get_phase_duration

\* C13 as amended: with positive durations, in every state in which the timer
\* is stopped or paused, get_remaining + get_elapsed is the larger of the
\* phase duration and the elapsed time: it is the phase duration as long as
\* the elapsed time does not exceed it, and the elapsed time otherwise.
C13_RemainingPlusElapsed ==
    (~is_running /\ PositiveDurations(config))
        => /\ get_remaining + get_elapsed
                = max(get_phase_duration, get_elapsed)
           /\ get_elapsed <= get_phase_duration
                => get_remaining + get_elapsed = get_phase_duration

\* A timer paused in the middle of a phase.
C13_Witness ==
    /\ is_paused
    /\ PositiveDurations(config)
    /\ get_elapsed > 0
    /\ get_elapsed < get_phase_duration

\* p <= q for fractions with positive denominators.
FracLeq(p, q) == p[1] * q[2] <= q[1] * p[2]

\* C14 as stated: between two successive observations made while the timer
\* is running, check_completion polls included, get_progress does not
\* decrease.
C14_AsStated ==
    [][(is_running /\ is_running') =>
        FracLeq(get_progress, get_progress')]_vars

\* C14 as amended: between two successive observations made while the timer
\* is running, get_progress does not decrease unless a check_completion poll
\* advanced the phase in between.
C14_ProgressMonotoneWithinPhase ==
    [][(is_running /\ is_running' /\ ~Advanced') =>
        FracLeq(get_progress, get_progress')]_vars

\* A running timer half way through its phase after a clock step.
C14_Witness ==
    /\ op = "tick"
    /\ is_running
    /\ get_progress = <<1, 2>>

\* C15: get_progress lies in [0, 1]; it is min(1, elapsed / duration) when
\* the duration of the phase is positive and 0 when it is 0.
C15_ProgressBounded ==
    LET p == get_progress
        e == get_elapsed
        d == get_phase_duration
    IN /\ p[2] > 0
       /\ 0 <= p[1]
       /\ p[1] <= p[2]
       /\ d > 0 => IF e >= d THEN p[1] = p[2] ELSE p[1] * d = e * p[2]
       /\ d = 0 => p[1] = 0

\* A running phase that has overrun its duration by more than the duration.
C15_Witness ==
    /\ is_running
    /\ get_phase_duration > 0
    /\ get_elapsed > 2 * get_phase_duration
    /\ get_progress = <<1, 1>>

\* C16: get_elapsed >= 0 and get_remaining = max(0, duration - elapsed) >= 0,
\* so neither part of get_time_display is negative.
C16_NeverNegative ==
    /\ get_elapsed >= 0
    /\ get_remaining = max(0, get_phase_duration - get_elapsed)
    /\ get_remaining >= 0
    /\ get_time_display[1] >= 0
    /\ get_time_display[2] >= 0

\* A running break phase that has overrun without being polled.
C16_Witness ==
    /\ op = "tick"
    /\ is_running
    /\ phase = SHORT_BREAK
    /\ get_elapsed > get_phase_duration
    /\ get_time_display = <<0, 0>>

\* C17: a change of the config made in the middle of a phase takes effect at
\* once: the config holds the saved values, get_phase_duration is the new
\* duration of the current phase, the timer's fields and the elapsed time are
\* unchanged, and if the new duration is <= the elapsed time the next
\* check_completion advances the phase.
C17_SettingsApplyAtOnce ==
    [][/\ op' = "save_settings" =>
            /\ config' = args'[1]
            /\ get_phase_duration' = PhaseDuration(phase, args'[1])
            /\ get_elapsed' = get_elapsed
            /\ UNCHANGED timer
       /\ (op = "save_settings" /\ op' = "check_completion"
             /\ get_phase_duration <= get_elapsed)
            => /\ ret' = Some(TRUE)
               /\ phase' # phase]_vars

\* A running Focus phase whose duration was just set to the time already
\* elapsed.
C17_Witness ==
    /\ op = "save_settings"
    /\ is_running
    /\ phase = FOCUS
    /\ get_elapsed > 0
    /\ get_phase_duration = get_elapsed

\* The entry of day d in history h; a day without an entry has no activity.
Entry(h, d) == IF d \in DOMAIN h THEN h[d] ELSE DailyStats(d)

\* The storage holds the whole in-memory history after the step.
Persisted ==
    /\ storage'.kind = "doc"
    /\ storage'.history = [d \in DOMAIN history' |-> to_dict(history'[d])]

\* record_pomodoro(d) has added one pomodoro and d seconds of focus time to
\* the entry of day t and has persisted.
PomodoroRecordedOn(t) ==
    /\ t \in DOMAIN history'
    /\ history'[t] = add_pomodoro(Entry(history, t), args'[1])
    /\ Persisted

\* C18: record_pomodoro(d), called at any time in the lifetime of a store,
\* adds 1 to pomodoros and d to focus_time of the history entry keyed by the
\* calendar date of the call, whatever the date of construction, and persists.
C18_AsStated ==
    [][op' = "record_pomodoro" => PomodoroRecordedOn(today)]_vars

\* record_pomodoro credits the day the store's current_day object was created
\* for; that is the calendar date until midnight passes.
C18_CreditsCurrentDayObject ==
    [][op' = "record_pomodoro" => PomodoroRecordedOn(current_day.date)]_vars

\* record_break(d, is_long) has added d to break_time and, iff is_long, 1 to
\* long_breaks_taken of the entry of day t, has left its other counters
\* alone, and has persisted.
BreakRecordedOn(t) ==
    LET before == Entry(history, t)
    IN /\ t \in DOMAIN history'
       /\ history'[t].break_time = before.break_time + args'[1]
       /\ history'[t].long_breaks_taken =
             before.long_breaks_taken + (IF args'[2] THEN 1 ELSE 0)
       /\ history'[t].pomodoros = before.pomodoros
       /\ history'[t].focus_time = before.focus_time
       /\ history'[t].completed_cycles = before.completed_cycles
       /\ Persisted

\* C19: record_break(d, is_long) adds d to today's break_time, adds 1 to
\* today's long_breaks_taken iff is_long, leaves today's pomodoros,
\* focus_time and completed_cycles unchanged, and persists.
C19_AsStated ==
    [][op' = "record_break" => BreakRecordedOn(today)]_vars

\* record_break credits the day of the store's current_day object.
C19_CreditsCurrentDayObject ==
    [][op' = "record_break" => BreakRecordedOn(current_day.date)]_vars

\* A record call has changed no entry but the one of day t, and record_cycle
\* has changed nothing in that entry but completed_cycles, by 1.
OnlyEntryChanged(t) ==
    /\ DOMAIN history' \subseteq DOMAIN history \cup {t}
    /\ \A d \in DOMAIN history \ {t} :
          d \in DOMAIN history' /\ history'[d] = history[d]
    /\ op' = "record_cycle" =>
          /\ t \in DOMAIN history'
          /\ history'[t] = add_cycle(Entry(history, t))

\* C20: record_pomodoro, record_break and record_cycle change only the entry
\* of the current day; the counters of every other date are unchanged, and
\* record_cycle changes nothing but completed_cycles, which grows by 1.
C20_AsStated ==
    [][op' \in {"record_pomodoro", "record_break", "record_cycle"}
         => OnlyEntryChanged(today)]_vars

\* The record calls change only the entry of the store's current_day object.
C20_ChangesCurrentDayObjectOnly ==
    [][op' \in {"record_pomodoro", "record_break", "record_cycle"}
         => OnlyEntryChanged(current_day.date)]_vars

\* The operations that change the statistics.
MutatingOps == {"record_pomodoro", "record_break", "record_cycle",
                "reset_today"}

\* A store has just been constructed, or has just carried out a mutating
\* operation: the moments at which the streak is computed.
StreakComputed ==
    /\ op \in {"init", "construct"} \cup MutatingOps
    /\ raised = None

\* Day d has an entry in h with at least one pomodoro.
ActiveOn(h, d) == d \in DOMAIN h /\ h[d].pomodoros > 0

\* The number of consecutive days d, d-1, d-2, ... that are active in h.
ConsecutiveFrom(h, d) ==
    CHOOSE n \in 0..Cardinality(DOMAIN h) :
        /\ \A j \in 0..(n - 1) : ActiveOn(h, d - j)
        /\ ~ActiveOn(h, d - n)

\* The streak of the calendar: the run of active days that ends today or,
\* when today is not active, yesterday.
CalendarStreak(h, t) ==
    IF ActiveOn(h, t) THEN ConsecutiveFrom(h, t) ELSE ConsecutiveFrom(h, t - 1)

\* C21: after every load and every mutating operation, get_streak() is the
\* number of consecutive calendar days, walking backward one day at a time,
\* each with pomodoros > 0, the most recent of them being today or yesterday;
\* it is 0 only when neither today nor yesterday has pomodoros > 0.
C21_AsStated ==
    StreakComputed => streak = CalendarStreak(history, today)

\* What the code keeps of it: the streak is never longer than the calendar's
\* as long as no entry is dated after today.
C21_NeverLongerThanCalendar ==
    (StreakComputed /\ \A d \in DOMAIN history : d <= today)
        => streak <= CalendarStreak(history, today)

\* A store has just been constructed and the constructor returned.
Loaded == op \in {"init", "construct"} /\ raised = None

\* C22: for any history loaded from storage, the most recent date of the
\* history is counted in the streak only if its gap from today is 0 or 1 day
\* and its pomodoros > 0; in every other case the streak is 0 and no older
\* date is counted.
C22_AsStated ==
    (Loaded /\ DOMAIN history # {}) =>
        LET newest == Newest(history)
        IN streak > 0 =>
              /\ today - newest \in {0, 1}
              /\ history[newest].pomodoros > 0

\* What the code keeps of it: the newest date is counted only if it is not
\* more than one day before today and has pomodoros > 0.
C22_NewestNotOlderThanYesterday ==
    (Loaded /\ DOMAIN history # {}) =>
        LET newest == Newest(history)
        IN streak > 0 =>
              /\ today - newest <= 1
              /\ history[newest].pomodoros > 0

\* C23: after the most recent date is counted, the walk counts an older date
\* only if it is exactly 1 day before the previously counted date and has
\* pomodoros > 0, and stops at the first date that fails this, so that older
\* runs beyond a gap or a zero-pomodoro day are never counted; pomodoros on
\* yesterday and the day before give streak 2, and a history with only the
\* date 3 days ago gives streak 0.
C23_OlderDatesConsecutive ==
    Loaded =>
        /\ streak > 0 => streak = ConsecutiveFrom(history, Newest(history))
        /\ (/\ DOMAIN history = {today - 1, today - 2}
            /\ history[today - 1].pomodoros > 0
            /\ history[today - 2].pomodoros > 0) => streak = 2
        /\ DOMAIN history = {today - 3} => streak = 0

\* A load has counted the newest date and has left uncounted an older run of
\* two active days that lies beyond a gap.
C23_Witness ==
    /\ op = "construct"
    /\ raised = None
    /\ streak = 1
    /\ \E d \in DOMAIN history :
          /\ d < Newest(history) - 1
          /\ ActiveOn(history, d)
          /\ ActiveOn(history, d - 1)

Counters == {"pomodoros", "focus_time", "break_time", "completed_cycles",
             "long_breaks_taken"}

\* C25: get_weekly_summary() returns, for any history however sparse, exactly
\* 7 entries dated today, today-1, ..., today-6 in that order, each date once;
\* the entry of a date present in the history carries that date's counters, and
\* the entry of a date absent from it has the correct date and all counters 0.
C25_WeekOfSevenDays ==
    op = "get_weekly_summary" =>
        /\ DOMAIN ret = 1..7
        /\ \A i \in 1..7 :
              LET d == today - (i - 1)
              IN /\ ret[i].date = d
                 /\ \A c \in Counters :
                       ret[i][c] = IF d \in DOMAIN history
                                   THEN history[d][c]
                                   ELSE 0

\* A summary of a sparse week: a day with a pomodoro, an absent day between
\* two days that have entries, and an entry older than today.
C25_Witness ==
    /\ op = "get_weekly_summary"
    /\ \E i, j, k \in 1..7 :
          /\ i < j /\ j < k
          /\ today - (i - 1) \in DOMAIN history
          /\ today - (j - 1) \notin DOMAIN history
          /\ today - (k - 1) \in DOMAIN history
          /\ ret[k].pomodoros > 0

\* C26: reset_today() replaces today's entry with an entry whose counters
\* are all 0: afterwards today's date is still a key of the history, the
\* entries of all other dates are unchanged, the streak is recomputed from the
\* resulting history, and the result is persisted.
C26_ResetToday ==
    [][op' = "reset_today" =>
          /\ DOMAIN history' = DOMAIN history \cup {today}
          /\ history'[today] = DailyStats(today)
          /\ \A d \in DOMAIN history \ {today} : history'[d] = history[d]
          /\ streak' = UpdateStreak(history', today)
          /\ Persisted
          /\ storage'.streak = streak']_vars

\* reset_today has emptied today's entry after midnight had passed, next to
\* the entry of an earlier day that still holds its pomodoro.
C26_Witness ==
    /\ op = "reset_today"
    /\ today > 0
    /\ history[today].pomodoros = 0
    /\ \E d \in DOMAIN history : d < today /\ history[d].pomodoros > 0

\* The file is missing or does not hold a valid stats document: its text is
\* not JSON, its top level is not an object, or one of its entries is not an
\* object, lacks a required field or is stored under a key that is not a date.
BadStorage(file) ==
    \/ file.kind \in {"missing", "corrupt", "not_object"}
    \/ file.kind = "doc" /\ LoadError(file) # None

\* A constructor call has just been made.
Constructed == op \in {"init", "construct"}

\* C27: constructing a store never fails on bad storage: if the file does not
\* exist or its contents are not a valid stats document (text that does not
\* parse, or text that parses but has the wrong shape), the store ends up with
\* empty history and streak 0 and no error is propagated to the caller.
C27_AsStated ==
    (Constructed /\ BadStorage(storage)) =>
        /\ raised = None
        /\ history = <<>>
        /\ streak = 0

\* What the code keeps of it: a missing file, text that is not JSON and an
\* entry that lacks a required field give an empty store without an error.
C27_MissingUnparsableIncomplete ==
    (/\ Constructed
     /\ \/ storage.kind \in {"missing", "corrupt"}
        \/ storage.kind = "doc" /\ LoadError(storage) = Some("KeyError")) =>
        /\ raised = None
        /\ history = <<>>
        /\ streak = 0

\* The operations that only read the statistics.
ReadOps == {"get_today_summary", "get_weekly_summary", "get_streak"}

\* C28: persistence is whole-snapshot and happens only on mutation: after each
\* of record_pomodoro, record_break, record_cycle and reset_today the storage
\* holds the entire in-memory history (every date, also those loaded earlier
\* and not touched by the operation) together with the recomputed streak;
\* constructing a store on a missing file and calling get_today_summary,
\* get_weekly_summary or get_streak neither write the storage nor add an
\* entry to the history.
C28_WholeSnapshotOnMutation ==
    [][/\ op' \in MutatingOps =>
             /\ Persisted
             /\ DOMAIN history \subseteq DOMAIN storage'.history
             /\ storage'.streak = UpdateStreak(history', today)
       /\ op' \in ReadOps =>
             storage' = storage /\ history' = history
       /\ (op' = "construct" /\ storage.kind = "missing") =>
             storage' = storage /\ history' = <<>>]_vars

\* A mutating operation has written a file that also holds an earlier day's
\* entry, which it did not touch.
C28_Witness ==
    /\ op \in MutatingOps
    /\ storage.kind = "doc"
    /\ \E d \in DOMAIN storage.history :
          d # current_day.date /\ storage.history[d].pomodoros > 0

\* C29: round trip: after any sequence of mutating operations on a store,
\* constructing a new store on the same storage on the same calendar day
\* yields a history with the same set of dates and, for every date, the same
\* values of the five counters; an entry lacking completed_cycles or
\* long_breaks_taken in storage loads with that counter equal to 0.
C29_RoundTrip ==
    [][op' = "construct" =>
          /\ (records > 0 /\ storage.last_updated = today) =>
                /\ raised' = None
                /\ DOMAIN history' = DOMAIN history
                /\ \A d \in DOMAIN history : \A c \in Counters :
                      history'[d][c] = history[d][c]
          /\ (storage.kind = "doc" /\ raised' = None) =>
                \A d \in DOMAIN storage.history :
                   \A c \in {"completed_cycles", "long_breaks_taken"} :
                      c \notin DOMAIN storage.history[d] => history'[d][c] = 0
      ]_vars

\* A store has been constructed on the file another store wrote the same day
\* after recording a cycle and a long break.
C29_Witness ==
    /\ op = "construct"
    /\ records > 0
    /\ storage.last_updated = today
    /\ \E d \in DOMAIN history :
          /\ history[d].completed_cycles > 0
          /\ history[d].long_breaks_taken > 0

\* The entry's total_time is the sum of its focus_time and break_time.
TotalDerived(e) == e.total_time = e.focus_time + e.break_time

\* C30: total_time is always derived: in every entry written to storage and
\* in every entry returned by get_today_summary and get_weekly_summary,
\* total_time = focus_time + break_time, also for entries loaded from a storage
\* file whose total_time field held a different value.
C30_TotalTimeDerived ==
    /\ op \in MutatingOps =>
          \A d \in DOMAIN storage.history : TotalDerived(storage.history[d])
    /\ op = "get_today_summary" =>
          /\ TotalDerived(ret)
          /\ ret.focus_time = current_day.focus_time
          /\ ret.break_time = current_day.break_time
    /\ op = "get_weekly_summary" =>
          \A i \in DOMAIN ret : TotalDerived(ret[i])

\* A weekly summary has been taken from a store loaded from a file in which
\* the total_time of a day with focus time is not the sum of its two times.
C30_Witness ==
    /\ op = "get_weekly_summary"
    /\ storage.kind = "doc"
    /\ \E i \in DOMAIN ret :
          /\ ret[i].focus_time > 0
          /\ ret[i].date \in DOMAIN storage.history
          /\ ~TotalDerived(storage.history[ret[i].date])

\* Every entry of the history is kept by the step, with counters that are
\* non-negative and, except for those named by the set of dates exempt, not
\* smaller than before.
CountersKept(exempt) ==
    /\ DOMAIN history \subseteq DOMAIN history'
    /\ \A d \in DOMAIN history' : \A c \in Counters : history'[d][c] >= 0
    /\ \A d \in DOMAIN history \ exempt : \A c \in Counters :
          history'[d][c] >= history[d][c]

\* C31: for every date, each counter of its entry is a non-negative integer
\* and never decreases along any sequence of store operations performed on
\* that day (the record operations, reset_today and the read operations);
\* entries are never deleted from the history.
C31_AsStated ==
    [][op' \in MutatingOps \cup ReadOps => CountersKept({})]_vars

\* C31 as the code has it: the counters are non-negative, no entry is ever
\* deleted, and no counter decreases except those of today's entry when
\* reset_today sets them to 0.
C31_CountersGrowUntilReset ==
    [][/\ op' \in {"record_pomodoro", "record_break", "record_cycle",
                   "construct"} \cup ReadOps => CountersKept({})
       /\ op' = "reset_today" =>
             /\ CountersKept({today})
             /\ \A c \in Counters : history'[today][c] = 0]_vars

\* A break has been recorded for a day that already had a pomodoro.
C31_Witness ==
    /\ op = "record_break"
    /\ \E d \in DOMAIN history :
          history[d].pomodoros > 0 /\ history[d].break_time > 0

\* The pomodoros and the focus time the store holds for today.
RecordedPomodoros(h) == Entry(h, today).pomodoros
RecordedFocusTime(h) == Entry(h, today).focus_time

\* C32: in the polling loop every completed Focus phase is recorded as one
\* pomodoro: for any pomodoros_before_long_break >= 1, each check_completion
\* that returns true while leaving Focus leads to exactly one
\* record_pomodoro(focus_duration), whether the next phase is ShortBreak or
\* LongBreak, so that without reset the number of pomodoros recorded in the
\* store during the session equals the timer's pomodoros_completed.
C32_AsStated ==
    [][op' # "reset" =>
          LET completed == pomodoros_completed' - pomodoros_completed
          IN /\ RecordedPomodoros(history') =
                   RecordedPomodoros(history) + completed
             /\ RecordedFocusTime(history') =
                   RecordedFocusTime(history)
                       + completed * config.focus_duration]_vars

\* What the code keeps of it: a pomodoro is recorded only by a poll that
\* leaves Focus for ShortBreak while no notification is pending, and then
\* exactly one.
C32_RecordedOnlyBeforeShortBreak ==
    [][RecordedPomodoros(history') =
          RecordedPomodoros(history)
              + (IF /\ op' = "poll" /\ ret' = Some(TRUE)
                    /\ phase = FOCUS /\ phase' = SHORT_BREAK
                    /\ ~notification_sent
                 THEN 1 ELSE 0)]_vars

\* C33: for any voice with n quotes, n consecutive get_quote(voice) calls on
\* a fresh QuoteManager return every one of the n quotes, each exactly once,
\* whatever random choices are made.
C33_AsStated ==
    \A voice \in Voice :
        Len(served[voice]) = NumQuotes => Range(served[voice]) = Quotes

\* What the code keeps of it: a quote differs from the three returned before
\* it for the same voice.
C33_NoRepeatWithinFour ==
    \A voice \in Voice :
        \A i, j \in DOMAIN served[voice] :
            (i < j /\ j - i <= KeptQuotes) =>
                served[voice][i] # served[voice][j]

\* C34: a single check_completion call advances at most one phase, however
\* far the clock is past the end of the current phase (even by more than the
\* duration of the next phases): the time by which the phase overran is
\* discarded, the new phase starts with elapsed 0 at the moment of the poll,
\* and pomodoros_completed grows by at most 1 per call.
C34_OnePhasePerPoll ==
    [][op' = "check_completion" =>
          /\ pomodoros_completed' - pomodoros_completed \in {0, 1}
          /\ ret' = Some(TRUE) =>
                /\ phase = FOCUS => phase' \in {SHORT_BREAK, LONG_BREAK}
                /\ phase # FOCUS => phase' = FOCUS
                /\ pomodoros_completed' - pomodoros_completed =
                      IF phase = FOCUS THEN 1 ELSE 0
                /\ get_elapsed' = 0
                /\ is_running => start_time' = Some(now)]_vars

\* A poll of a running timer has advanced a phase that had run past its end
\* by more than the whole duration of the phase entered, and the phase entered
\* has its full, positive duration left.
C34_Witness ==
    /\ op = "check_completion"
    /\ ret = Some(TRUE)
    /\ is_running
    /\ get_phase_duration > 0
    /\ overrun > get_phase_duration
    /\ get_remaining = get_phase_duration

\* C35: for a config with positive durations, if the timer is started and from
\* then on never paused, stopped or reset, while the clock keeps advancing and
\* check_completion keeps being polled, then every phase is eventually left:
\* every break leads to Focus, every Focus leads to a break and
\* pomodoros_completed reaches every value up to MaxPomodoros (the Focus that
\* begins with MaxPomodoros completed pomodoros is the last one followed),
\* with no start() call needed after an advance.
C35_EveryPhaseLeft ==
    <>[](is_running /\ op # "start") =>
        /\ (phase # FOCUS) ~> (phase = FOCUS)
        /\ (phase = FOCUS /\ pomodoros_completed < MaxPomodoros)
              ~> (phase # FOCUS)
        /\ \A k \in 0..MaxPomodoros : <>(pomodoros_completed >= k)
        /\ []<>(phase = FOCUS)

\* A timer that a poll has just moved out of a long break into the Focus
\* after MaxPomodoros pomodoros is running for its new phase.
C35_Witness ==
    /\ op = "check_completion"
    /\ ret = Some(TRUE)
    /\ is_running
    /\ phase = FOCUS
    /\ pomodoros_completed = MaxPomodoros
    /\ focus_completions = MaxPomodoros
    /\ get_elapsed = 0

\* The storage holds a valid stats document with an entry for today.
HoldsToday ==
    /\ ~BadStorage(storage)
    /\ today \in DOMAIN storage.history

\* Counter c of today's entry in the storage.
Stored(c) == Get(storage.history[today], c, 0)

\* What the last call has added to counter c.
Added(c) ==
    IF op' = "record_pomodoro"
    THEN (IF c = "pomodoros" THEN 1
          ELSE IF c = "focus_time" THEN args'[1] ELSE 0)
    ELSE IF op' = "record_break"
    THEN (IF c = "break_time" THEN args'[1]
          ELSE IF c = "long_breaks_taken" /\ args'[2] THEN 1 ELSE 0)
    ELSE IF op' = "record_cycle" /\ c = "completed_cycles" THEN 1
    ELSE 0

\* C36: a store constructed on storage that already holds an entry for today
\* continues from it: its get_today_summary returns the stored counters, and
\* each later record_pomodoro, record_break or record_cycle adds to those
\* counters (the persisted pomodoros for today after one record_pomodoro is
\* the stored value plus 1), so that restarting the program during a day
\* loses no recorded activity.
C36_ContinuesFromStorage ==
    [][HoldsToday =>
          /\ op' = "construct" =>
                /\ raised' = None
                /\ current_day'.date = today
                /\ \A c \in Counters : current_day'[c] = Stored(c)
          /\ op' = "get_today_summary" =>
                \A c \in Counters : ret'[c] = Stored(c)
          /\ op' \in {"record_pomodoro", "record_break", "record_cycle"} =>
                /\ storage'.kind = "doc"
                /\ today \in DOMAIN storage'.history
                /\ \A c \in Counters :
                      storage'.history[today][c] = Stored(c) + Added(c)
      ]_vars

\* The first record call of the program, a record_pomodoro, has been
\* persisted on top of the pomodoro the storage already held for today when
\* the store was constructed.
C36_Witness ==
    /\ op = "record_pomodoro"
    /\ records = 1
    /\ storage.kind = "doc"
    /\ today \in DOMAIN storage.history
    /\ storage.history[today].pomodoros = 2
    /\ current_day.date = today

\* C37: the store's read-modify-write-persist sequence is not atomic against a
\* second writer: with two store instances constructed on the same storage
\* file, when each has performed one record_pomodoro the storage shows today's
\* pomodoros increased by only 1 (the later whole-snapshot write overwrites
\* the earlier one), whereas a single instance performing both calls always
\* ends with an increase of 2.
C37_LaterWriteOverwrites ==
    /\ second.records \in {0, records} =>
          StoredPomodoros(storage, today) = found + records
    /\ (records = 2 /\ second.records = 1) =>
          StoredPomodoros(storage, today) = found + 1

\* Each of the two trackers has recorded one pomodoro on top of the one the
\* file held, the second tracker last, and the file shows two pomodoros.
C37_Witness ==
    /\ op = "second.record_pomodoro"
    /\ records = 2
    /\ second.records = 1
    /\ found = 1
    /\ StoredPomodoros(storage, today) = 2
    /\ current_day.pomodoros = 2

====
